---- MODULE Spec2Model ----
(***************************************************************************)
(* Expense splitting and settlement engine of roomsync-backend.            *)
(*                                                                         *)
(* The ledger (tables expenses and splits), the notifications table and    *)
(* the HTTP handlers of the expense and split controllers, each handler    *)
(* with the service calls it makes.  Money is counted in cents: the store  *)
(* keeps DECIMAL(10,2).  Time is a logical clock.                          *)
(***************************************************************************)
EXTENDS Integers, Sequences, FiniteSets, TLC

(* ------------------------------ bounds -------------------------------- *)
NumTenants == 3
MaxTotal == 3
MaxTime == 3
MaxExpenses == 2

(* ----------------------------- constants ------------------------------ *)
NULL == 0
MinAmount == 1

Tenants == 1..NumTenants
\* the user account of tenant t; account 10 has no tenant record
UserOf(t) == 10 + t
Users == {UserOf(t) : t \in Tenants} \cup {10}
\* a tenant of another group
Outsider == NumTenants + 1
\* req.user.group_id, tenants.group_id: the tenants 1..NumTenants are in
\* group 1, the outsider is in group 2
GroupOf(t) == IF t = Outsider THEN 2 ELSE 1
Statuses == {"unpaid", "pending", "paid"}
Faults == {"none", "Expense.create", "Split.bulkCreate", "commit", "getExpenseById"}

(* ------------------------- inputs of the requests --------------------- *)
TotalInputs == {0, MinAmount, MaxTotal}
GroupInputs == {NULL, 1, 2}
\* selected_roommates: the empty list and the lists 1, 2, .., u of tenants
RoommateInputs == {[i \in 1..u |-> i] : u \in 0..NumTenants}
\* :groupId of a route: the group of the tenants and a group without expenses
GroupIdInputs == {1, 2}
\* receipt_total and selected_roommates of a request; the smallest total
\* comes with the longest list
ExpenseInputs ==
  {inp \in TotalInputs \X RoommateInputs : inp[1] = MinAmount => Len(inp[2]) = NumTenants}
\* selected_roommates as any list of one or two tenant ids: a tenant named
\* twice and the tenant of another group among them
ParticipantInputs ==
  {<<a>> : a \in Tenants \cup {Outsider}}
    \cup {<<a, b>> : a \in Tenants \cup {Outsider}, b \in Tenants \cup {Outsider}}
StatusInputs == Statuses \cup {"settled"}
PaidDateInputs == {NULL, MaxTime}
AmountInputs == {0, 1}
\* the splits array of the bulk route: k copies of one split
BulkInputs ==
  {<<>>} \cup {[i \in 1..k |-> [status |-> s, split_amount |-> a, assigned_to |-> t]] :
                 k \in {2}, s \in {"unpaid", "paid"}, a \in AmountInputs, t \in {NumTenants}}
\* the body of an expense update
ExpensePatchInputs == {[receipt_total |-> a] : a \in AmountInputs}
SplitPatchInputs ==
  {[status |-> s] : s \in {"unpaid", "paid", "settled"}} \cup {[split_amount |-> a] : a \in {0, MaxTotal}}
    \cup {[assigned_to |-> t] : t \in {1}}

\* the two requests of updateSplitStatus that are followed step by step, and
\* a request that has not begun
Callers == {"A", "B"}
Idle == [pc |-> "idle", splitId |-> NULL, status |-> "none", paid_date |-> NULL, snap |-> <<>>]

VARIABLES expenses, splits, nextExpenseId, nextSplitId, notifications, now,
          resp, rolledBack, calls

vars == <<expenses, splits, nextExpenseId, nextSplitId, notifications, now,
          resp, rolledBack, calls>>

\* the ids a request may name: those handed out so far and the next one
ExpenseIdInputs == 1..nextExpenseId
SplitIdInputs == 1..nextSplitId

(* ------------------------------ helpers ------------------------------- *)
Range(f) == {f[i] : i \in DOMAIN f}

RECURSIVE SumAmounts(_)
SumAmounts(S) ==
  IF S = {} THEN 0
  ELSE LET s == CHOOSE x \in S : TRUE
       IN s.split_amount + SumAmounts(S \ {s})

Includes(seq, x) == \E i \in DOMAIN seq : seq[i] = x

\* ORDER BY created_at DESC: the lists that hold each row of S once, a row
\* of latest creation first; rows of equal created_at come in any order
RECURSIVE OrderByCreatedAtDesc(_)
OrderByCreatedAtDesc(S) ==
  IF S = {} THEN {<<>>}
  ELSE UNION {{<<x>> \o p : p \in OrderByCreatedAtDesc(S \ {x})} :
                x \in {y \in S : \A z \in S : y.created_at >= z.created_at}}

\* ORDER BY paid_date DESC: a row of latest paid_date first, rows without a
\* paid_date last; rows of equal paid_date come in any order
RECURSIVE OrderByPaidDateDesc(_)
OrderByPaidDateDesc(S) ==
  IF S = {} THEN {<<>>}
  ELSE UNION {{<<x>> \o p : p \in OrderByPaidDateDesc(S \ {x})} :
                x \in {y \in S : \A z \in S : y.paid_date >= z.paid_date}}

RECURSIVE SumReceiptTotals(_)
SumReceiptTotals(S) ==
  IF S = {} THEN 0
  ELSE LET e == CHOOSE x \in S : TRUE
       IN e.receipt_total + SumReceiptTotals(S \ {e})

(* --------------------------- the ledger store ------------------------- *)
\* a value num/den (in cents) written to a DECIMAL(10,2) column is rounded
\* to the nearest cent, halves away from zero
ToDecimal2(num, den) == (2 * num + den) \div (2 * den)

\* split_amount: validate { min: 0.01 }, run by create() and update(), not
\* by bulkCreate()
ValidSplitAmount(cents) == cents >= MinAmount

\* SUM(col) of no row is the SQL NULL, written SqlNull
SqlNull == -1
SqlSumAmount(S) == IF S = {} THEN SqlNull ELSE SumAmounts(S)
SqlSumReceiptTotal(S) == IF S = {} THEN SqlNull ELSE SumReceiptTotals(S)
SqlCount(S) == Cardinality(S)

ExpenseById(id) == {e \in expenses : e.id = id}
SplitById(id) == {s \in splits : s.id = id}

\* Tenant.findOne({ where: { user_id } })
TenantByUser(userId) ==
  IF \E t \in Tenants : UserOf(t) = userId
  THEN CHOOSE t \in Tenants : UserOf(t) = userId
  ELSE NULL

\* an instance returned by Split.findByPk(id) without include: the columns
\* of the row, no association loaded
SplitInstance(row) == [row |-> row, expense |-> NULL, assignedTenant |-> NULL]

\* the response of a request: status code, message, the entity id, the
\* request's parameters, the rows of the body (data: an ordered list, rows:
\* the rows nested in an entity) and what console.error logged
Response(op, code, message) ==
  [op |-> op, code |-> code, message |-> message, id |-> 0, req |-> <<>>,
   data |-> <<>>, rows |-> {}, log |-> "none"]

(* --------------------------- ExpenseService --------------------------- *)
\* a variant that takes the first roommate for the creator
splitsData_first(expense, selected_roommates, firstId) ==
  [i \in 1..Len(selected_roommates) |->
     [id           |-> firstId + i - 1,
      expense_id   |-> expense.id,
      split_amount |-> ToDecimal2(expense.receipt_total, Len(selected_roommates)),
      assigned_to  |-> selected_roommates[i],
      assigned_by  |-> expense.created_by,
      status       |-> IF i = 1 THEN "paid" ELSE "unpaid",
      paid_date    |-> IF i = 1 THEN now ELSE NULL,
      created_at   |-> now]]

\* the share and the split rows of one expense
splitsData(expense, selected_roommates, firstId) ==
  [i \in 1..Len(selected_roommates) |->
     [id           |-> firstId + i - 1,
      expense_id   |-> expense.id,
      split_amount |-> ToDecimal2(expense.receipt_total, Len(selected_roommates)),
      assigned_to  |-> selected_roommates[i],
      assigned_by  |-> expense.created_by,
      status       |-> IF selected_roommates[i] = expense.created_by THEN "paid" ELSE "unpaid",
      paid_date    |-> IF selected_roommates[i] = expense.created_by THEN now ELSE NULL,
      created_at   |-> now]]

\* a variant whose writes are not bound to the transaction
Rollback_kept(tx) == tx

\* transaction.rollback(): the rows written in the transaction are discarded
Rollback(tx) == [expenses |-> {}, splits |-> {}]

\* createExpense: the rows it leaves in the store, the ids it consumed and
\* whether it returned (ok) or threw
ExpenseService_createExpense(expenseData, fault) ==
  LET expense == [id |-> nextExpenseId,
                  receipt_total |-> expenseData.receipt_total,
                  group_id |-> expenseData.group_id,
                  created_by |-> expenseData.created_by]
      n == Len(expenseData.selected_roommates)
      rows == Range(splitsData(expense, expenseData.selected_roommates, nextSplitId))
      tx0 == [expenses |-> {}, splits |-> {}]
      tx1 == [expenses |-> {expense}, splits |-> {}]
      tx2 == [expenses |-> {expense}, splits |-> rows]
  IN CASE fault = "Expense.create" ->
            [ok |-> FALSE, id |-> nextExpenseId, written |-> Rollback(tx0),
             expenseIds |-> 1, splitIds |-> 0]
       [] fault = "Split.bulkCreate" ->
            [ok |-> FALSE, id |-> nextExpenseId, written |-> Rollback(tx1),
             expenseIds |-> 1, splitIds |-> n]
       [] fault = "commit" ->
            [ok |-> FALSE, id |-> nextExpenseId, written |-> Rollback(tx2),
             expenseIds |-> 1, splitIds |-> n]
       [] fault = "getExpenseById" ->
            \* thrown after the commit: the catch block's rollback of the
            \* finished transaction removes nothing
            [ok |-> FALSE, id |-> nextExpenseId, written |-> tx2,
             expenseIds |-> 1, splitIds |-> n]
       [] OTHER ->
            [ok |-> TRUE, id |-> nextExpenseId, written |-> tx2,
             expenseIds |-> 1, splitIds |-> n]

\* getExpenseById: the expense with its splits, or the error it throws
ExpenseService_getExpenseById(expenseId) ==
  IF ExpenseById(expenseId) = {}
  THEN [ok |-> FALSE, message |-> "Failed to get expense: Expense not found", splits |-> {}]
  ELSE [ok |-> TRUE, message |-> "", splits |-> {s \in splits : s.expense_id = expenseId}]

\* a variant that shares the new receipt_total among the splits again
ExpenseService_updateExpense_resplit(expenseId, updateData) ==
  IF ExpenseById(expenseId) = {}
  THEN [ok |-> FALSE, message |-> "Failed to update expense: Expense not found",
        expenses |-> expenses, splits |-> splits]
  ELSE LET row == CHOOSE e \in ExpenseById(expenseId) : TRUE
           new == [f \in DOMAIN row |-> IF f \in DOMAIN updateData THEN updateData[f] ELSE row[f]]
           mine == {s \in splits : s.expense_id = expenseId}
       IN [ok |-> TRUE, message |-> "",
           expenses |-> (expenses \ {row}) \cup {new},
           splits |-> (splits \ mine) \cup
                        {[s EXCEPT !.split_amount = ToDecimal2(new.receipt_total, Cardinality(mine))] :
                           s \in mine}]

\* updateExpense: expense.update(updateData), no split is read or written
ExpenseService_updateExpense(expenseId, updateData) ==
  IF ExpenseById(expenseId) = {}
  THEN [ok |-> FALSE, message |-> "Failed to update expense: Expense not found",
        expenses |-> expenses, splits |-> splits]
  ELSE LET row == CHOOSE e \in ExpenseById(expenseId) : TRUE
           new == [f \in DOMAIN row |-> IF f \in DOMAIN updateData THEN updateData[f] ELSE row[f]]
       IN [ok |-> TRUE, message |-> "",
           expenses |-> (expenses \ {row}) \cup {new},
           splits |-> splits]

\* a variant without the foreign key's ON DELETE CASCADE
Cascade_none(expenseId, S) == S

\* ON DELETE CASCADE of splits.expense_id: the splits left when the expense
\* row is deleted
Cascade(expenseId, S) == {s \in S : s.expense_id # expenseId}

\* deleteExpense: expense.destroy(), the splits go by ON DELETE CASCADE
ExpenseService_deleteExpense(expenseId) ==
  IF ExpenseById(expenseId) = {}
  THEN [ok |-> FALSE, message |-> "Failed to delete expense: Expense not found",
        expenses |-> expenses, splits |-> splits]
  ELSE [ok |-> TRUE, message |-> "Expense deleted successfully",
        expenses |-> expenses \ ExpenseById(expenseId),
        splits |-> Cascade(expenseId, splits)]

\* getTotalExpensesByGroup: parseFloat(result.dataValues.total) || 0
ExpenseService_getTotalExpensesByGroup(groupId) ==
  LET total == SqlSumReceiptTotal({e \in expenses : e.group_id = groupId})
  IN IF total = SqlNull THEN 0 ELSE total

(* ---------------------------- SplitService ---------------------------- *)
\* createSplit: Split.create(splitData); the store rejects a row whose
\* expense does not exist
SplitService_createSplit(splitData) ==
  IF ~ValidSplitAmount(splitData.split_amount) \/ ExpenseById(splitData.expense_id) = {}
  THEN [ok |-> FALSE, rows |-> {}]
  ELSE [ok |-> TRUE,
        rows |-> {[id |-> nextSplitId, expense_id |-> splitData.expense_id,
                   split_amount |-> ToDecimal2(splitData.split_amount, 1),
                   assigned_to |-> splitData.assigned_to, assigned_by |-> NULL,
                   status |-> splitData.status, paid_date |-> NULL,
                   created_at |-> now]}]

\* createSplitsForExpense: Split.bulkCreate of the given splits
SplitService_createSplitsForExpense(expenseId, splitsIn) ==
  IF ExpenseById(expenseId) = {}
  THEN [ok |-> FALSE, rows |-> {}]
  ELSE [ok |-> TRUE,
        rows |-> {[id |-> nextSplitId + i - 1, expense_id |-> expenseId,
                   split_amount |-> ToDecimal2(splitsIn[i].split_amount, 1),
                   assigned_to |-> splitsIn[i].assigned_to, assigned_by |-> NULL,
                   status |-> splitsIn[i].status, paid_date |-> NULL,
                   created_at |-> now] : i \in DOMAIN splitsIn}]

\* getSplitById: the split, or the error it throws
SplitService_getSplitById(splitId) ==
  IF SplitById(splitId) = {}
  THEN [ok |-> FALSE, message |-> "Failed to get split: Split not found", rows |-> {}]
  ELSE [ok |-> TRUE, message |-> "", rows |-> SplitById(splitId)]

\* split.update(updateData): the given columns are overwritten
ApplyPatch(row, updateData) ==
  [f \in DOMAIN row |-> IF f \in DOMAIN updateData THEN updateData[f] ELSE row[f]]

\* a variant that keeps paid_date in step with a status it is given
SplitService_updateSplit_settling(splitId, updateData) ==
  IF SplitById(splitId) = {}
  THEN [ok |-> FALSE, message |-> "Failed to update split: Split not found", rows |-> splits]
  ELSE LET row == CHOOSE s \in SplitById(splitId) : TRUE
           new == ApplyPatch(row, updateData)
       IN IF "split_amount" \in DOMAIN updateData /\ ~ValidSplitAmount(updateData.split_amount)
          THEN [ok |-> FALSE, message |-> "Failed to update split: Validation error", rows |-> splits]
          ELSE [ok |-> TRUE, message |-> "",
                rows |-> (splits \ {row}) \cup
                           {IF "status" \in DOMAIN updateData
                            THEN [new EXCEPT !.paid_date = IF new.status = "paid" THEN now ELSE NULL]
                            ELSE new}]

\* updateSplit: generic patch of one split
SplitService_updateSplit(splitId, updateData) ==
  IF SplitById(splitId) = {}
  THEN [ok |-> FALSE, message |-> "Failed to update split: Split not found", rows |-> splits]
  ELSE LET row == CHOOSE s \in SplitById(splitId) : TRUE
       IN IF "split_amount" \in DOMAIN updateData /\ ~ValidSplitAmount(updateData.split_amount)
          THEN [ok |-> FALSE, message |-> "Failed to update split: Validation error", rows |-> splits]
          ELSE [ok |-> TRUE, message |-> "",
                rows |-> (splits \ {row}) \cup {ApplyPatch(row, updateData)}]

\* a variant that writes paid_date only when a date comes with paid
StatusUpdateData_keep(status, paidDate) ==
  IF status = "paid" /\ paidDate # NULL THEN [status |-> status, paid_date |-> paidDate]
  ELSE [status |-> status]

\* the updateData of updateSplitStatus
StatusUpdateData(status, paidDate) ==
  IF status = "paid" /\ paidDate # NULL THEN [status |-> status, paid_date |-> paidDate]
  ELSE IF status # "paid" THEN [status |-> status, paid_date |-> NULL]
  ELSE [status |-> status]

\* a variant that updates the splits of the split's expense
SplitService_updateSplitStatus_expense(splitId, status, paidDate) ==
  IF SplitById(splitId) = {}
  THEN [ok |-> FALSE, message |-> "Failed to update split status: Split not found",
        rows |-> splits, split |-> NULL]
  ELSE LET row == CHOOSE s \in SplitById(splitId) : TRUE
           new == ApplyPatch(row, StatusUpdateData(status, paidDate))
       IN [ok |-> TRUE, message |-> "",
           rows |-> {IF s.expense_id = row.expense_id
                     THEN ApplyPatch(s, StatusUpdateData(status, paidDate)) ELSE s : s \in splits},
           split |-> SplitInstance(new)]

\* updateSplitStatus: the new rows and the instance it returns
SplitService_updateSplitStatus(splitId, status, paidDate) ==
  IF SplitById(splitId) = {}
  THEN [ok |-> FALSE, message |-> "Failed to update split status: Split not found",
        rows |-> splits, split |-> NULL]
  ELSE LET row == CHOOSE s \in SplitById(splitId) : TRUE
           new == ApplyPatch(row, StatusUpdateData(status, paidDate))
       IN [ok |-> TRUE, message |-> "", rows |-> (splits \ {row}) \cup {new},
           split |-> SplitInstance(new)]

\* deleteSplit
SplitService_deleteSplit(splitId) ==
  IF SplitById(splitId) = {}
  THEN [ok |-> FALSE, message |-> "Failed to delete split: Split not found", rows |-> splits]
  ELSE [ok |-> TRUE, message |-> "Split deleted successfully", rows |-> splits \ SplitById(splitId)]

\* a variant that lists the unpaid splits only
ToPayWhere_unpaid(s, tenantId) == s.assigned_to = tenantId /\ s.status = "unpaid"

\* a variant that filters on the payer column
ToReceiveWhere_payer(s, tenantId) == s.assigned_to = tenantId /\ s.status \in {"unpaid", "pending"}

\* the where clause of getToPaySplits
ToPayWhere(s, tenantId) == s.assigned_to = tenantId /\ s.status \in {"unpaid", "pending"}

\* the where clause of getToReceiveSplits
ToReceiveWhere(s, tenantId) == s.assigned_by = tenantId /\ s.status \in {"unpaid", "pending"}

\* order: [['created_at', 'DESC']]
ToPayOrder(S) == OrderByCreatedAtDesc(S)

ToReceiveOrder(S) == OrderByCreatedAtDesc(S)

\* getToPaySplits: the lists the query may return, or no tenant record
SplitService_getToPaySplits(userId) ==
  IF TenantByUser(userId) = NULL THEN [ok |-> FALSE, lists |-> {<<>>}]
  ELSE [ok |-> TRUE,
        lists |-> ToPayOrder({s \in splits : ToPayWhere(s, TenantByUser(userId))})]

\* getToReceiveSplits
SplitService_getToReceiveSplits(userId) ==
  IF TenantByUser(userId) = NULL THEN [ok |-> FALSE, lists |-> {<<>>}]
  ELSE [ok |-> TRUE,
        lists |-> ToReceiveOrder({s \in splits : ToReceiveWhere(s, TenantByUser(userId))})]

\* a variant that keeps the splits the tenant both pays and is owed
HistoryWhere_both(s, tenantId) ==
  s.status = "paid" /\ s.assigned_to = tenantId /\ s.assigned_by = tenantId

\* the where clause of getSplitHistory
HistoryWhere(s, tenantId) ==
  s.status = "paid" /\ (s.assigned_to = tenantId \/ s.assigned_by = tenantId)

\* order: [['paid_date', 'DESC']]
HistoryOrder(S) == OrderByPaidDateDesc(S)

\* getSplitHistory
SplitService_getSplitHistory(userId) ==
  IF TenantByUser(userId) = NULL THEN [ok |-> FALSE, lists |-> {<<>>}]
  ELSE [ok |-> TRUE,
        lists |-> HistoryOrder({s \in splits : HistoryWhere(s, TenantByUser(userId))})]

\* a variant that hands the aggregate on as it is
TotalOrZero_raw(total) == total

\* parseFloat(result.dataValues.total) || 0
TotalOrZero(total) == IF total = SqlNull THEN 0 ELSE total

\* getTotalSplitsByStatus
SplitService_getTotalSplitsByStatus(expenseId, status) ==
  TotalOrZero(SqlSumAmount({s \in splits : s.expense_id = expenseId /\ s.status = status}))

\* the where clauses of the three aggregate queries of getSplitSummary
SummaryToPayWhere(s, tenantId) == s.assigned_to = tenantId /\ s.status \in {"unpaid", "pending"}

SummaryToReceiveWhere(s, tenantId) == s.assigned_by = tenantId /\ s.status \in {"unpaid", "pending"}

\* a variant that counts the payer's side of the history only
SummaryHistoryWhere_payer(s, tenantId) == s.status = "paid" /\ s.assigned_to = tenantId

SummaryHistoryWhere(s, tenantId) ==
  s.status = "paid" /\ (s.assigned_to = tenantId \/ s.assigned_by = tenantId)

\* { total: parseFloat(result[0]?.total || 0), count: parseInt(result[0]?.count || 0) }
SummaryPair(S) ==
  [total |-> IF SqlSumAmount(S) = SqlNull THEN 0 ELSE SqlSumAmount(S),
   count |-> SqlCount(S)]

\* getSplitSummary
SplitService_getSplitSummary(userId) ==
  LET t == TenantByUser(userId)
  IN IF t = NULL THEN [ok |-> FALSE, summary |-> <<>>]
     ELSE [ok |-> TRUE,
           summary |-> [toPay     |-> SummaryPair({s \in splits : SummaryToPayWhere(s, t)}),
                        toReceive |-> SummaryPair({s \in splits : SummaryToReceiveWhere(s, t)}),
                        history   |-> SummaryPair({s \in splits : SummaryHistoryWhere(s, t)})]]

(* ------------------------- NotificationService ------------------------ *)
\* createSplitPaidNotification(split, expense, payer, expenseCreator)
createSplitPaidNotification(split, expense, payer, expenseCreator) ==
  [type |-> "split_paid", recipient_id |-> expenseCreator, sender_id |-> payer,
   related_entity_id |-> split.id]

\* createExpenseCreatedNotification(expense, group, creator): one
\* notification for each tenant of the group but the creator; reading
\* creator.User of no creator, or group.name of no group, throws
createExpenseCreatedNotification(expense, group, creator) ==
  IF creator = NULL \/ group = NULL
  THEN [threw |-> TRUE, created |-> <<>>]
  ELSE [threw |-> FALSE,
        created |-> [i \in 1..Len(SelectSeq([t \in 1..NumTenants |-> t],
                                            LAMBDA t : GroupOf(t) = group /\ t # creator)) |->
                       [type |-> "expense_created",
                        recipient_id |-> SelectSeq([t \in 1..NumTenants |-> t],
                                                   LAMBDA t : GroupOf(t) = group /\ t # creator)[i],
                        sender_id |-> creator,
                        related_entity_id |-> expense.id]]]

(* -------------------------- ExpenseController ------------------------- *)
\* the instance that createExpense returns: getExpenseById loads the group
\* as group and the creating tenant as creator; its properties Group and
\* Tenant, which the handler reads, are not set
ExpenseInstance(expense) ==
  [row |-> expense, group |-> expense.group_id, creator |-> expense.created_by,
   Group |-> NULL, Tenant |-> NULL]

\* the try block of the notifications of a new expense
ExpenseCreatedNotifications(expense) ==
  createExpenseCreatedNotification(expense, ExpenseInstance(expense).Group,
                                   ExpenseInstance(expense).Tenant)

\* what the handler's catch blocks log: after a successful creation the
\* notification block throws, expense.Group and expense.Tenant not being
\* properties of the instance getExpenseById returns (its associations are
\* named group and creator)
ExpenseCreatedLog(ok) ==
  IF ok THEN "Error sending expense notifications" ELSE "Error creating expense"

\* the checks of the handler before it calls the service
\* a variant that does not look for the creator among the roommates
ExpenseRejection_anyone(tenant_id, user_group, receipt_total, group_id, selected_roommates) ==
  IF receipt_total < MinAmount \/ group_id = NULL THEN "Validation failed"
  ELSE IF user_group = NULL THEN "You must be in a group to create expenses"
  ELSE IF group_id # NULL /\ group_id # user_group
  THEN "You can only create expenses for your own group"
  ELSE IF Len(selected_roommates) = 0
  THEN "You must select at least one roommate to split the expense with"
  ELSE "none"

\* validateExpense (receipt_total of 0.01 or more, group_id an integer of 1
\* or more) and the checks of the handler, in their order: the message of
\* the 400 response, "none" when the request goes on to the service
ExpenseRejection(tenant_id, user_group, receipt_total, group_id, selected_roommates) ==
  IF receipt_total < MinAmount \/ group_id = NULL THEN "Validation failed"
  ELSE IF user_group = NULL THEN "You must be in a group to create expenses"
  ELSE IF group_id # NULL /\ group_id # user_group
  THEN "You can only create expenses for your own group"
  ELSE IF Len(selected_roommates) = 0
  THEN "You must select at least one roommate to split the expense with"
  ELSE IF ~Includes(selected_roommates, tenant_id)
  THEN "You must include yourself in the selected roommates"
  ELSE "none"

ExpenseRequestRejected(tenant_id, user_group, receipt_total, group_id, selected_roommates) ==
  ExpenseRejection(tenant_id, user_group, receipt_total, group_id, selected_roommates) # "none"

\* POST /expenses
ExpenseController_createExpense(tenant_id, user_group, receipt_total, group_id, selected_roommates, fault) ==
  LET expenseData == [receipt_total |-> receipt_total,
                      group_id |-> IF group_id # NULL THEN group_id ELSE user_group,
                      created_by |-> tenant_id,
                      selected_roommates |-> selected_roommates]
      r == ExpenseService_createExpense(expenseData, fault)
  IN IF ExpenseRequestRejected(tenant_id, user_group, receipt_total, group_id, selected_roommates)
     THEN /\ fault = "none"
          /\ resp' = Response("createExpense", 400,
                              ExpenseRejection(tenant_id, user_group, receipt_total,
                                               group_id, selected_roommates))
          /\ UNCHANGED <<expenses, splits, nextExpenseId, nextSplitId,
                         notifications, now, rolledBack, calls>>
     ELSE /\ expenses' = expenses \cup r.written.expenses
          /\ splits' = splits \cup r.written.splits
          /\ nextExpenseId' = nextExpenseId + r.expenseIds
          /\ nextSplitId' = nextSplitId + r.splitIds
          /\ rolledBack' = IF fault \in {"Expense.create", "Split.bulkCreate", "commit"}
                           THEN rolledBack \cup {[id |-> r.id, fault |-> fault]}
                           ELSE rolledBack
          /\ resp' = [Response("createExpense", IF r.ok THEN 201 ELSE 500,
                               IF r.ok THEN "Expense created successfully"
                               ELSE "Failed to create expense: " \o fault)
                        EXCEPT !.id = r.id, !.req = expenseData,
                               !.log = ExpenseCreatedLog(r.ok)]
          /\ now' = now + 1
          /\ notifications' =
               IF r.ok
               THEN notifications \o ExpenseCreatedNotifications(
                                       CHOOSE e \in r.written.expenses : TRUE).created
               ELSE notifications
          /\ UNCHANGED calls

\* the answer of a controller to an error thrown by the service: 404 only
\* for the exact message
ErrorResponse(op, message, notFound) ==
  IF message = notFound THEN Response(op, 404, notFound) ELSE Response(op, 500, message)

\* GET /expenses/:expenseId
ExpenseController_getExpenseById(expenseId) ==
  LET r == ExpenseService_getExpenseById(expenseId)
  IN /\ resp' = IF r.ok
                THEN [Response("getExpenseById", 200, "") EXCEPT !.id = expenseId, !.rows = r.splits]
                ELSE [ErrorResponse("getExpenseById", r.message, "Expense not found")
                        EXCEPT !.id = expenseId]
     /\ UNCHANGED <<expenses, splits, nextExpenseId, nextSplitId, notifications,
                    now, rolledBack, calls>>

\* PUT /expenses/:expenseId
ExpenseController_updateExpense(expenseId, updateData) ==
  LET request == [expenseId |-> expenseId, updateData |-> updateData]
      r == ExpenseService_updateExpense(expenseId, updateData)
  IN IF "receipt_total" \in DOMAIN updateData /\ updateData.receipt_total < MinAmount
     THEN /\ resp' = Response("updateExpense", 400, "validation")
          /\ UNCHANGED <<expenses, splits, nextExpenseId, nextSplitId,
                         notifications, now, rolledBack, calls>>
     ELSE /\ expenses' = r.expenses
          /\ splits' = r.splits
          /\ resp' = IF r.ok
                     THEN [Response("updateExpense", 200, "Expense updated successfully")
                             EXCEPT !.id = expenseId, !.req = request]
                     ELSE [ErrorResponse("updateExpense", r.message, "Expense not found")
                             EXCEPT !.id = expenseId]
          /\ now' = IF r.ok THEN now + 1 ELSE now
          /\ UNCHANGED <<nextExpenseId, nextSplitId, notifications, rolledBack, calls>>

\* DELETE /expenses/:expenseId
ExpenseController_deleteExpense(expenseId) ==
  LET r == ExpenseService_deleteExpense(expenseId)
  IN /\ expenses' = r.expenses
     /\ splits' = r.splits
     /\ resp' = IF r.ok
                THEN [Response("deleteExpense", 200, r.message) EXCEPT !.id = expenseId]
                ELSE [ErrorResponse("deleteExpense", r.message, "Expense not found")
                        EXCEPT !.id = expenseId]
     /\ now' = IF r.ok THEN now + 1 ELSE now
     /\ UNCHANGED <<nextExpenseId, nextSplitId, notifications, rolledBack, calls>>

(* --------------------------- SplitController -------------------------- *)
\* POST /splits
SplitController_createSplit(status, split_amount, assigned_to, expense_id) ==
  LET request == [status |-> status, split_amount |-> split_amount,
                  assigned_to |-> assigned_to, expense_id |-> expense_id]
      r == SplitService_createSplit(request)
  IN IF status \notin Statuses \/ split_amount < MinAmount
     THEN /\ resp' = Response("createSplit", 400, "validation")
          /\ UNCHANGED <<expenses, splits, nextExpenseId, nextSplitId,
                         notifications, now, rolledBack, calls>>
     ELSE /\ splits' = splits \cup r.rows
          /\ nextSplitId' = IF r.ok THEN nextSplitId + 1 ELSE nextSplitId
          /\ resp' = IF r.ok
                     THEN [Response("createSplit", 201, "Split created successfully")
                             EXCEPT !.id = nextSplitId, !.req = request]
                     ELSE Response("createSplit", 500, "Failed to create split")
          /\ now' = IF r.ok THEN now + 1 ELSE now
          /\ UNCHANGED <<expenses, nextExpenseId, notifications, rolledBack, calls>>

\* POST /splits/expense/:expenseId/bulk
SplitController_createSplitsForExpense(expenseId, splitsIn) ==
  LET request == [expenseId |-> expenseId, splits |-> splitsIn]
      r == SplitService_createSplitsForExpense(expenseId, splitsIn)
  IN IF \/ Len(splitsIn) = 0
        \/ \E i \in DOMAIN splitsIn :
             splitsIn[i].status \notin Statuses \/ splitsIn[i].split_amount < MinAmount
     THEN /\ resp' = Response("createSplitsForExpense", 400, "validation")
          /\ UNCHANGED <<expenses, splits, nextExpenseId, nextSplitId,
                         notifications, now, rolledBack, calls>>
     ELSE /\ splits' = splits \cup r.rows
          /\ nextSplitId' = IF r.ok THEN nextSplitId + Len(splitsIn) ELSE nextSplitId
          /\ resp' = IF r.ok
                     THEN [Response("createSplitsForExpense", 201, "Splits created successfully")
                             EXCEPT !.id = expenseId, !.req = request]
                     ELSE Response("createSplitsForExpense", 500, "Failed to create splits")
          /\ now' = IF r.ok THEN now + 1 ELSE now
          /\ UNCHANGED <<expenses, nextExpenseId, notifications, rolledBack, calls>>

\* GET /splits/:splitId
SplitController_getSplitById(splitId) ==
  LET r == SplitService_getSplitById(splitId)
  IN /\ resp' = IF r.ok
                THEN [Response("getSplitById", 200, "") EXCEPT !.id = splitId, !.rows = r.rows]
                ELSE [ErrorResponse("getSplitById", r.message, "Split not found")
                        EXCEPT !.id = splitId]
     /\ UNCHANGED <<expenses, splits, nextExpenseId, nextSplitId, notifications,
                    now, rolledBack, calls>>

\* PUT /splits/:splitId
SplitController_updateSplit(splitId, updateData) ==
  LET request == [splitId |-> splitId, updateData |-> updateData]
      r == SplitService_updateSplit(splitId, updateData)
  IN IF \/ ("status" \in DOMAIN updateData /\ updateData.status \notin Statuses)
        \/ ("split_amount" \in DOMAIN updateData /\ updateData.split_amount < MinAmount)
     THEN /\ resp' = Response("updateSplit", 400, "validation")
          /\ UNCHANGED <<expenses, splits, nextExpenseId, nextSplitId,
                         notifications, now, rolledBack, calls>>
     ELSE /\ splits' = r.rows
          /\ resp' = IF r.ok
                     THEN [Response("updateSplit", 200, "Split updated successfully")
                             EXCEPT !.id = splitId, !.req = request,
                                    !.data = <<CHOOSE s \in r.rows : s.id = splitId>>]
                     ELSE [ErrorResponse("updateSplit", r.message, "Split not found") EXCEPT !.id = splitId]
          /\ now' = IF r.ok THEN now + 1 ELSE now
          /\ UNCHANGED <<expenses, nextExpenseId, nextSplitId, notifications, rolledBack, calls>>

\* the try block of the settlement notification: the notifications it
\* creates, and whether it threw.  split.expense.creator is read before the
\* notification service is called, and throws when the association is not
\* loaded; notifyFault is a failure of Notification.create
SplitPaidNotifications(split, notifyFault) ==
  IF split.expense = NULL \/ split.assignedTenant = NULL
  THEN [threw |-> TRUE, created |-> <<>>]
  ELSE IF notifyFault
  THEN [threw |-> TRUE, created |-> <<>>]
  ELSE [threw |-> FALSE,
        created |-> <<createSplitPaidNotification(split.row, split.expense,
                                                  split.assignedTenant, split.expense.created_by)>>]

\* a variant that lets the notification error reach the outer catch
AfterNotificationError_thrown(success) ==
  [Response("updateSplitStatus", 500, "Failed to update split status")
     EXCEPT !.id = success.id, !.req = success.req,
            !.log = "Error sending split paid notification"]

\* the catch block of the settlement notification: log and go on to the
\* success response
AfterNotificationError(success) ==
  [success EXCEPT !.log = "Error sending split paid notification"]

\* PATCH /splits/:splitId/status
SplitController_updateSplitStatus(splitId, status, paid_date, notifyFault) ==
  LET request == [splitId |-> splitId, status |-> status, paid_date |-> paid_date]
      r == SplitService_updateSplitStatus(splitId, status, paid_date)
      n == IF r.ok /\ status = "paid" THEN SplitPaidNotifications(r.split, notifyFault)
           ELSE [threw |-> FALSE, created |-> <<>>]
      success == [Response("updateSplitStatus", 200, "Split status updated successfully")
                    EXCEPT !.id = splitId, !.req = request,
                           !.data = IF r.ok THEN <<r.split.row>> ELSE <<>>]
  IN IF status \notin Statuses
     THEN /\ ~notifyFault
          /\ resp' = Response("updateSplitStatus", 400, "validation")
          /\ UNCHANGED <<expenses, splits, nextExpenseId, nextSplitId,
                         notifications, now, rolledBack, calls>>
     ELSE /\ splits' = r.rows
          /\ notifications' = notifications \o n.created
          /\ resp' = IF ~r.ok
                     THEN [ErrorResponse("updateSplitStatus", r.message, "Split not found") EXCEPT !.id = splitId]
                     ELSE IF n.threw THEN AfterNotificationError(success)
                     ELSE success
          /\ now' = IF r.ok THEN now + 1 ELSE now
          /\ UNCHANGED <<expenses, nextExpenseId, nextSplitId, rolledBack, calls>>

\* DELETE /splits/:splitId
SplitController_deleteSplit(splitId) ==
  LET r == SplitService_deleteSplit(splitId)
  IN /\ splits' = r.rows
     /\ resp' = IF r.ok
                THEN [Response("deleteSplit", 200, r.message) EXCEPT !.id = splitId]
                ELSE [ErrorResponse("deleteSplit", r.message, "Split not found") EXCEPT !.id = splitId]
     /\ now' = IF r.ok THEN now + 1 ELSE now
     /\ UNCHANGED <<expenses, nextExpenseId, nextSplitId, notifications, rolledBack, calls>>

\* GET /splits/tenant/to-pay
SplitController_getToPaySplits(userId) ==
  LET r == SplitService_getToPaySplits(userId)
  IN /\ \E data \in r.lists :
          resp' = IF r.ok
                  THEN [Response("getToPaySplits", 200, "") EXCEPT !.id = userId, !.data = data]
                  ELSE [Response("getToPaySplits", 500,
                                 "Failed to get to pay splits: Tenant record not found")
                          EXCEPT !.id = userId]
     /\ UNCHANGED <<expenses, splits, nextExpenseId, nextSplitId, notifications,
                    now, rolledBack, calls>>

\* GET /splits/tenant/to-receive
SplitController_getToReceiveSplits(userId) ==
  LET r == SplitService_getToReceiveSplits(userId)
  IN /\ \E data \in r.lists :
          resp' = IF r.ok
                  THEN [Response("getToReceiveSplits", 200, "") EXCEPT !.id = userId, !.data = data]
                  ELSE [Response("getToReceiveSplits", 500,
                                 "Failed to get to receive splits: Tenant record not found")
                          EXCEPT !.id = userId]
     /\ UNCHANGED <<expenses, splits, nextExpenseId, nextSplitId, notifications,
                    now, rolledBack, calls>>

\* GET /splits/tenant/history
SplitController_getSplitHistory(userId) ==
  LET r == SplitService_getSplitHistory(userId)
  IN /\ \E data \in r.lists :
          resp' = IF r.ok
                  THEN [Response("getSplitHistory", 200, "") EXCEPT !.id = userId, !.data = data]
                  ELSE [Response("getSplitHistory", 500,
                                 "Failed to get split history: Tenant record not found")
                          EXCEPT !.id = userId]
     /\ UNCHANGED <<expenses, splits, nextExpenseId, nextSplitId, notifications,
                    now, rolledBack, calls>>

\* GET /splits/tenant/summary
SplitController_getSplitSummary(userId) ==
  LET r == SplitService_getSplitSummary(userId)
  IN /\ resp' = IF r.ok
                THEN [Response("getSplitSummary", 200, "")
                        EXCEPT !.id = userId, !.data = <<r.summary>>]
                ELSE [Response("getSplitSummary", 500,
                               "Failed to get split summary: Tenant record not found")
                        EXCEPT !.id = userId]
     /\ UNCHANGED <<expenses, splits, nextExpenseId, nextSplitId, notifications,
                    now, rolledBack, calls>>

\* GET /splits/expense/:expenseId/status/:status/total
SplitController_getTotalSplitsByStatus(expenseId, status) ==
  /\ resp' = [Response("getTotalSplitsByStatus", 200, "")
               EXCEPT !.id = expenseId, !.req = [status |-> status],
                      !.data = <<[total |-> SplitService_getTotalSplitsByStatus(expenseId, status)]>>]
  /\ UNCHANGED <<expenses, splits, nextExpenseId, nextSplitId, notifications,
                 now, rolledBack, calls>>

\* GET /expenses/group/:groupId/total
ExpenseController_getTotalExpensesByGroup(groupId) ==
  /\ resp' = [Response("getTotalExpensesByGroup", 200, "")
               EXCEPT !.id = groupId,
                      !.data = <<[total |-> ExpenseService_getTotalExpensesByGroup(groupId)]>>]
  /\ UNCHANGED <<expenses, splits, nextExpenseId, nextSplitId, notifications,
                 now, rolledBack, calls>>

(* ---------------- updateSplitStatus, one statement at a time ----------- *)
\* const split = await Split.findByPk(splitId): the request keeps the row it
\* read; a request for no stored split ends with the error
UpdateSplitStatus_findByPk(c, splitId, status, paid_date) ==
  /\ calls[c].pc = "idle"
  /\ status \in Statuses
  /\ IF SplitById(splitId) = {}
     THEN /\ resp' = [ErrorResponse("updateSplitStatus",
                                    "Failed to update split status: Split not found",
                                    "Split not found") EXCEPT !.id = splitId]
          /\ UNCHANGED calls
     ELSE /\ calls' = [calls EXCEPT ![c] = [pc |-> "found", splitId |-> splitId,
                                           status |-> status, paid_date |-> paid_date,
                                           snap |-> CHOOSE s \in SplitById(splitId) : TRUE]]
          /\ UNCHANGED resp
  /\ UNCHANGED <<expenses, splits, nextExpenseId, nextSplitId, notifications, now, rolledBack>>

\* await split.update(updateData): when a column of the instance changes,
\* one UPDATE writes the columns of updateData to the stored row of that id;
\* then the handler answers as in SplitController_updateSplitStatus
UpdateSplitStatus_update(c) ==
  LET call == calls[c]
      updateData == StatusUpdateData(call.status, call.paid_date)
      instance == ApplyPatch(call.snap, updateData)
      n == IF call.status = "paid" THEN SplitPaidNotifications(SplitInstance(instance), FALSE)
           ELSE [threw |-> FALSE, created |-> <<>>]
      success == [Response("updateSplitStatus", 200, "Split status updated successfully")
                    EXCEPT !.id = call.splitId,
                           !.req = [splitId |-> call.splitId, status |-> call.status,
                                    paid_date |-> call.paid_date],
                           !.data = <<instance>>]
  IN /\ call.pc = "found"
     /\ splits' = IF instance = call.snap THEN splits
                  ELSE {IF s.id = call.splitId THEN ApplyPatch(s, updateData) ELSE s : s \in splits}
     /\ notifications' = notifications \o n.created
     /\ resp' = IF n.threw THEN AfterNotificationError(success) ELSE success
     /\ calls' = [calls EXCEPT ![c].pc = "done"]
     /\ UNCHANGED <<expenses, nextExpenseId, nextSplitId, now, rolledBack>>

(* ----------------- createExpense, one statement at a time ------------- *)
\* a variant whose inserts do not carry the transaction: the rows are
\* committed at once
InsertInTransaction_autocommit(table, rows) == table \cup rows

\* a table as the other connections read it after rows were inserted with
\* { transaction }: the rows stay with the transaction until it commits
InsertInTransaction(table, rows) == table

\* the handler's checks, then const transaction = await sequelize.transaction()
CreateExpense_begin(c, tenant_id, receipt_total, selected_roommates) ==
  LET user_group == GroupOf(tenant_id)
      expenseData == [receipt_total |-> receipt_total, group_id |-> user_group,
                      created_by |-> tenant_id, selected_roommates |-> selected_roommates]
  IN /\ calls[c].pc = "idle"
     /\ IF ExpenseRequestRejected(tenant_id, user_group, receipt_total, user_group, selected_roommates)
        THEN /\ resp' = Response("createExpense", 400,
                                 ExpenseRejection(tenant_id, user_group, receipt_total,
                                                  user_group, selected_roommates))
             /\ UNCHANGED calls
        ELSE /\ calls' = [calls EXCEPT ![c] = [pc |-> "begun", expenseData |-> expenseData,
                                              expense |-> NULL,
                                              tx |-> [expenses |-> {}, splits |-> {}]]]
             /\ UNCHANGED resp
     /\ UNCHANGED <<expenses, splits, nextExpenseId, nextSplitId, notifications, now, rolledBack>>

\* const expense = await Expense.create(expenseInfo, { transaction })
CreateExpense_insertExpense(c) ==
  LET call == calls[c]
      expense == [id |-> nextExpenseId,
                  receipt_total |-> call.expenseData.receipt_total,
                  group_id |-> call.expenseData.group_id,
                  created_by |-> call.expenseData.created_by]
  IN /\ call.pc = "begun"
     /\ expenses' = InsertInTransaction(expenses, {expense})
     /\ nextExpenseId' = nextExpenseId + 1
     /\ calls' = [calls EXCEPT ![c].pc = "expense", ![c].expense = expense,
                               ![c].tx = [expenses |-> {expense}, splits |-> {}]]
     /\ UNCHANGED <<splits, nextSplitId, notifications, now, resp, rolledBack>>

\* await Split.bulkCreate(splitsData, { transaction })
CreateExpense_bulkCreate(c) ==
  LET call == calls[c]
      rows == Range(splitsData(call.expense, call.expenseData.selected_roommates, nextSplitId))
  IN /\ call.pc = "expense"
     /\ splits' = InsertInTransaction(splits, rows)
     /\ nextSplitId' = nextSplitId + Len(call.expenseData.selected_roommates)
     /\ calls' = [calls EXCEPT ![c].pc = "splits", ![c].tx = [call.tx EXCEPT !.splits = rows]]
     /\ UNCHANGED <<expenses, nextExpenseId, notifications, now, resp, rolledBack>>

\* await transaction.commit(): the rows of the transaction become readable
\* together
CreateExpense_commit(c) ==
  LET call == calls[c]
  IN /\ call.pc = "splits"
     /\ expenses' = expenses \cup call.tx.expenses
     /\ splits' = splits \cup call.tx.splits
     /\ calls' = [calls EXCEPT ![c].pc = "committed"]
     /\ UNCHANGED <<nextExpenseId, nextSplitId, notifications, now, resp, rolledBack>>

\* return await this.getExpenseById(expense.id), and the handler's answer
CreateExpense_return(c) ==
  LET call == calls[c]
      r == ExpenseService_getExpenseById(call.expense.id)
  IN /\ call.pc = "committed"
     /\ resp' = [Response("createExpense", IF r.ok THEN 201 ELSE 500,
                          IF r.ok THEN "Expense created successfully" ELSE r.message)
                   EXCEPT !.id = call.expense.id, !.req = call.expenseData,
                          !.rows = r.splits, !.log = ExpenseCreatedLog(r.ok)]
     /\ calls' = [calls EXCEPT ![c].pc = "done"]
     /\ UNCHANGED <<expenses, splits, nextExpenseId, nextSplitId, notifications, now, rolledBack>>

\* a statement of the try block throws before the commit: the catch block
\* rolls the transaction back and the handler answers 500
CreateExpense_rollback(c) ==
  LET call == calls[c]
      left == Rollback(call.tx)
  IN /\ call.pc \in {"begun", "expense", "splits"}
     /\ expenses' = expenses \cup left.expenses
     /\ splits' = splits \cup left.splits
     /\ resp' = [Response("createExpense", 500, "Failed to create expense")
                   EXCEPT !.req = call.expenseData, !.log = ExpenseCreatedLog(FALSE)]
     /\ calls' = [calls EXCEPT ![c].pc = "failed"]
     /\ UNCHANGED <<nextExpenseId, nextSplitId, notifications, now, rolledBack>>

(* --------------------------- the state machine ------------------------ *)
Init ==
  /\ expenses = {}
  /\ splits = {}
  /\ nextExpenseId = 1
  /\ nextSplitId = 1
  /\ notifications = <<>>
  /\ now = 1
  /\ resp = Response("none", 0, "")
  /\ rolledBack = {}
  /\ calls = [c \in Callers |-> Idle]

\* the requests that write; one is served while the clock is below MaxTime,
\* a creation of an expense while at most MaxExpenses ids were handed out
Writes ==
  \/ now < MaxTime /\ nextExpenseId <= MaxExpenses
       /\ \E t \in Tenants, inp \in ExpenseInputs, g \in GroupInputs, f \in Faults :
                        ExpenseController_createExpense(t, GroupOf(t), inp[1], g, inp[2], f)
  \/ now < MaxTime /\ \E e \in ExpenseIdInputs, u \in ExpensePatchInputs :
                        ExpenseController_updateExpense(e, u)
  \/ now < MaxTime /\ \E e \in ExpenseIdInputs : ExpenseController_deleteExpense(e)
  \/ now < MaxTime /\ \E s \in {"unpaid", "paid", "settled"}, a \in AmountInputs, t \in {1, NumTenants},
                         e \in ExpenseIdInputs :
                        SplitController_createSplit(s, a, t, e)
  \/ now < MaxTime /\ \E e \in ExpenseIdInputs, b \in BulkInputs :
                        SplitController_createSplitsForExpense(e, b)
  \/ now < MaxTime /\ \E id \in SplitIdInputs, u \in SplitPatchInputs :
                        SplitController_updateSplit(id, u)
  \/ now < MaxTime /\ \E id \in SplitIdInputs, s \in StatusInputs, d \in PaidDateInputs, nf \in BOOLEAN :
                        SplitController_updateSplitStatus(id, s, d, nf)
  \/ now < MaxTime /\ \E id \in SplitIdInputs : SplitController_deleteSplit(id)

\* the requests that write, and the reads of an expense and of the open
\* splits of a tenant
Next ==
  \/ Writes
  \/ \E e \in ExpenseIdInputs : ExpenseController_getExpenseById(e)
  \/ \E u \in Users : SplitController_getToPaySplits(u)
  \/ \E u \in Users : SplitController_getToReceiveSplits(u)

Spec == Init /\ [][Next]_vars

\* a read changes nothing but the response, so the ledgers reached are the
\* same whichever reads are served: the reads of one split and of the history
\* are followed with the same writes
HistoryNext ==
  \/ Writes
  \/ \E id \in SplitIdInputs : SplitController_getSplitById(id)
  \/ \E u \in Users : SplitController_getSplitHistory(u)

HistorySpec == Init /\ [][HistoryNext]_vars

\* the aggregate reads, with the same writes
AggregateNext ==
  \/ Writes
  \/ \E u \in Users : SplitController_getSplitSummary(u)
  \/ \E e \in ExpenseIdInputs, st \in {"unpaid", "paid"} :
       SplitController_getTotalSplitsByStatus(e, st)
  \/ \E g \in GroupIdInputs : ExpenseController_getTotalExpensesByGroup(g)

AggregateSpec == Init /\ [][AggregateNext]_vars

\* two requests of updateSplitStatus for one split, their statements
\* interleaved, on a ledger prepared by one creation and by updates of a
\* split that are served before the first of the two begins
NoCallBegun == \A c \in Callers : calls[c].pc = "idle"

SameSplit(splitId) == \A c \in Callers : calls[c].pc = "idle" \/ calls[c].splitId = splitId

RaceNext ==
  \/ NoCallBegun /\ now < MaxTime /\ expenses = {}
       /\ \E inp \in ExpenseInputs :
            ExpenseController_createExpense(1, GroupOf(1), inp[1], GroupOf(1), inp[2], "none")
  \/ NoCallBegun /\ now < MaxTime
       /\ \E id \in SplitIdInputs, u \in SplitPatchInputs : SplitController_updateSplit(id, u)
  \/ \E c \in Callers, id \in SplitIdInputs, s \in {"pending", "paid"}, d \in PaidDateInputs :
       SameSplit(id) /\ UpdateSplitStatus_findByPk(c, id, s, d)
  \/ \E c \in Callers : UpdateSplitStatus_update(c)

RaceSpec == Init /\ [][RaceNext]_vars

\* two requests of createExpense, their statements interleaved with each
\* other and with the reads of an expense and of the splits a tenant is to
\* pay
TxNext ==
  \/ \E c \in Callers, t \in Tenants, inp \in ExpenseInputs :
       CreateExpense_begin(c, t, inp[1], inp[2])
  \/ \E c \in Callers : CreateExpense_insertExpense(c)
  \/ \E c \in Callers : CreateExpense_bulkCreate(c)
  \/ \E c \in Callers : CreateExpense_commit(c)
  \/ \E c \in Callers : CreateExpense_return(c)
  \/ \E c \in Callers : CreateExpense_rollback(c)
  \/ \E e \in ExpenseIdInputs : ExpenseController_getExpenseById(e)
  \/ \E u \in Users : SplitController_getToPaySplits(u)

TxSpec == Init /\ [][TxNext]_vars

\* the creations of expenses and the changes of a split's status, served for
\* one tick of the clock more than the other writes, so that a split goes
\* through two changes of status
StatusNext ==
  \/ now < MaxTime /\ nextExpenseId <= MaxExpenses
       /\ \E t \in Tenants, inp \in ExpenseInputs :
            ExpenseController_createExpense(t, GroupOf(t), inp[1], GroupOf(t), inp[2], "none")
  \/ now <= MaxTime
       /\ \E id \in SplitIdInputs, s \in StatusInputs, d \in PaidDateInputs, nf \in BOOLEAN :
            SplitController_updateSplitStatus(id, s, d, nf)

StatusSpec == Init /\ [][StatusNext]_vars

\* the creations of expenses with any list of participants, and the read of
\* an expense
MemberNext ==
  \/ now < MaxTime /\ nextExpenseId <= MaxExpenses
       /\ \E t \in Tenants, g \in GroupInputs, p \in ParticipantInputs :
            ExpenseController_createExpense(t, GroupOf(t), MaxTotal, g, p, "none")
  \/ \E e \in ExpenseIdInputs : ExpenseController_getExpenseById(e)

MemberSpec == Init /\ [][MemberNext]_vars

\* the two requests of updateSplitStatus, interleaved with the deletion of a
\* split and of an expense
DeleteRaceNext ==
  \/ RaceNext
  \/ now < MaxTime /\ \E id \in SplitIdInputs : SplitController_deleteSplit(id)
  \/ now < MaxTime /\ \E e \in ExpenseIdInputs : ExpenseController_deleteExpense(e)

DeleteRaceSpec == Init /\ [][DeleteRaceNext]_vars

(* ============================ properties ============================= *)
TheSplit(id) == CHOOSE s \in splits : s.id = id
SplitsOf(expenseId) == {s \in splits : s.expense_id = expenseId}
Created == resp.op = "createExpense" /\ resp.code = 201
Open == {"unpaid", "pending"}

\* C1 - after a successful createExpense with receipt total T, the
\* split_amount values of the generated splits, as stored with two
\* fractional digits, sum to exactly T.
SplitSumEqualsTotal ==
  Created => SumAmounts(SplitsOf(resp.id)) = resp.req.receipt_total

\* C2 - right after a successful createExpense, a generated split assigned
\* to the creator is paid with a paid_date, every other generated split is
\* unpaid without a paid_date.
CreatorSelfSettlement ==
  Created =>
    /\ Cardinality(SplitsOf(resp.id)) = Len(resp.req.selected_roommates)
    /\ \A s \in SplitsOf(resp.id) :
         IF s.assigned_to = resp.req.created_by
         THEN s.status = "paid" /\ s.paid_date # NULL
         ELSE s.status = "unpaid" /\ s.paid_date = NULL

\* a creation by a tenant who is not the first of two or more roommates
CreatorSelfSettlementWitness ==
  /\ Created
  /\ Len(resp.req.selected_roommates) >= 2
  /\ resp.req.selected_roommates[1] # resp.req.created_by
  /\ \E s \in SplitsOf(resp.id) : s.status = "paid"
  /\ \E s \in SplitsOf(resp.id) : s.status = "unpaid"

\* C3 - when the bulk insertion of the splits fails after the expense row
\* was inserted, the call is rolled back: no expense row and no split row of
\* the call is visible in any later state, and getExpenseById of that id
\* reports that the expense is not found.
BulkFailed == {r.id : r \in {x \in rolledBack : x.fault = "Split.bulkCreate"}}

RollbackLeavesNothing ==
  /\ \A id \in BulkFailed : ExpenseById(id) = {} /\ SplitsOf(id) = {}
  /\ (resp.op = "getExpenseById" /\ resp.id \in BulkFailed) =>
       /\ resp.code # 200
       /\ resp.message = "Failed to get expense: Expense not found"
       /\ resp.rows = {}

\* a read of the id of a rolled back creation, after a later creation went
\* through
RollbackLeavesNothingWitness ==
  /\ resp.op = "getExpenseById"
  /\ resp.id \in BulkFailed
  /\ resp.message = "Failed to get expense: Expense not found"

\* C4 - when createExpense reports a failure, the ledger holds no expense row
\* and no split row of that call; when it reports success, the expense and
\* all its splits are stored.
CreateExpenseAllOrNothing ==
  resp.op = "createExpense" /\ resp.code \in {201, 500} =>
    IF resp.code = 500
    THEN ExpenseById(resp.id) = {} /\ SplitsOf(resp.id) = {}
    ELSE /\ ExpenseById(resp.id) # {}
         /\ Cardinality(SplitsOf(resp.id)) = Len(resp.req.selected_roommates)

\* C5 - after a successful updateSplitStatus to paid the split's paid_date is
\* not null, and is the provided date when one is provided; after a
\* successful updateSplitStatus to unpaid or pending it is null.
StatusUpdated == resp.op = "updateSplitStatus" /\ resp.code = 200

PaidDateFollowsStatus ==
  StatusUpdated =>
    IF resp.req.status = "paid"
    THEN /\ TheSplit(resp.id).paid_date # NULL
         /\ (resp.req.paid_date # NULL => TheSplit(resp.id).paid_date = resp.req.paid_date)
    ELSE TheSplit(resp.id).paid_date = NULL

\* C6 - in every reachable state every stored split has a paid_date if and
\* only if its status is paid.
PaidDateIffPaid ==
  \A s \in splits : (s.paid_date # NULL) <=> (s.status = "paid")

\* C7 - every successful request that sets a split's status to paid creates
\* exactly one settlement notification, from the payer (assigned_to) to the
\* tenant who is owed (assigned_by, the creator of the expense).
OneSettlementNotification ==
  [][(resp'.op = "updateSplitStatus" /\ resp'.code = 200 /\ resp'.req.status = "paid"
        /\ now' = now + 1) =>
       /\ Len(notifications') = Len(notifications) + 1
       /\ notifications'[Len(notifications')] =
            [type |-> "split_paid",
             recipient_id |-> TheSplit(resp'.id).assigned_by,
             sender_id |-> TheSplit(resp'.id).assigned_to,
             related_entity_id |-> resp'.id]]_vars

\* C8 - when the settlement notification fails while a split is marked paid,
\* the status change stays stored and the caller gets the success response
\* with the updated split.
NotificationFailureSwallowed ==
  (resp.op = "updateSplitStatus" /\ resp.log = "Error sending split paid notification") =>
     /\ resp.code = 200
     /\ SplitById(resp.id) # {}
     /\ TheSplit(resp.id).status = "paid"
     /\ resp.data = <<TheSplit(resp.id)>>

\* a split that was unpaid is marked paid and the notification failed
NotificationFailureSwallowedWitness ==
  /\ resp.op = "updateSplitStatus"
  /\ resp.log = "Error sending split paid notification"
  /\ resp.code = 200
  /\ TheSplit(resp.id).status = "paid"
  /\ TheSplit(resp.id).assigned_to # TheSplit(resp.id).assigned_by

\* C9 - getToReceive of a tenant returns exactly the stored splits with
\* assigned_by the tenant and status unpaid or pending, each once; so for the
\* one expense of creator 1 shared with 2 and 3 it returns the splits of 2
\* and 3, and only the split of 3 once the split of 2 is paid.
ToReceiveRead == resp.op = "getToReceiveSplits" /\ resp.code = 200

ToPayRead == resp.op = "getToPaySplits" /\ resp.code = 200

HistoryRead == resp.op = "getSplitHistory" /\ resp.code = 200

RECURSIVE SumOfList(_)
SumOfList(list) ==
  IF list = <<>> THEN 0 ELSE Head(list).split_amount + SumOfList(Tail(list))

PairOfList(list) == [total |-> SumOfList(list), count |-> Len(list)]

SummaryRead == resp.op = "getSplitSummary" /\ resp.code = 200

SummaryMatchesLists ==
  SummaryRead =>
    /\ \A l \in SplitService_getToPaySplits(resp.id).lists :
         resp.data[1].toPay = PairOfList(l)
    /\ \A l \in SplitService_getToReceiveSplits(resp.id).lists :
         resp.data[1].toReceive = PairOfList(l)
    /\ \A l \in SplitService_getSplitHistory(resp.id).lists :
         resp.data[1].history = PairOfList(l)

\* a tenant with a split to pay, a split to receive and a paid split
SummaryMatchesListsWitness ==
  /\ SummaryRead
  /\ resp.data[1].toPay.count >= 1
  /\ resp.data[1].toReceive.count >= 1
  /\ resp.data[1].history.count >= 1
  /\ resp.data[1].history.total >= 1

\* C13 - an aggregate over no row is the number 0: the total of
\* getTotalSplitsByStatus, the total of getTotalExpensesByGroup and each pair
\* of getSummary whose filter matches no split.
ZeroPair == [total |-> 0, count |-> 0]

AggregatesDefaultToZero ==
  /\ (/\ resp.op = "getTotalSplitsByStatus"
      /\ {s \in splits : s.expense_id = resp.id /\ s.status = resp.req.status} = {})
       => resp.code = 200 /\ resp.data = <<[total |-> 0]>>
  /\ (/\ resp.op = "getTotalExpensesByGroup"
      /\ {e \in expenses : e.group_id = resp.id} = {})
       => resp.code = 200 /\ resp.data = <<[total |-> 0]>>
  /\ SummaryRead =>
       /\ {s \in splits : s.assigned_to = TenantByUser(resp.id) /\ s.status \in Open} = {}
            => resp.data[1].toPay = ZeroPair
       /\ {s \in splits : s.assigned_by = TenantByUser(resp.id) /\ s.status \in Open} = {}
            => resp.data[1].toReceive = ZeroPair
       /\ {s \in splits : /\ s.status = "paid"
                           /\ (s.assigned_to = TenantByUser(resp.id)
                                 \/ s.assigned_by = TenantByUser(resp.id))} = {}
            => resp.data[1].history = ZeroPair

\* the total of the unpaid splits of a stored expense that has paid splits
\* only
AggregatesDefaultToZeroWitness ==
  /\ resp.op = "getTotalSplitsByStatus"
  /\ resp.req.status = "unpaid"
  /\ SplitsOf(resp.id) # {}
  /\ \A s \in SplitsOf(resp.id) : s.status = "paid"
  /\ resp.data = <<[total |-> 0]>>

\* C14 - a request of getExpenseById, updateExpense, deleteExpense,
\* getSplitById, updateSplit, updateSplitStatus or deleteSplit that names an
\* id of no stored row is answered with the not-found status 404, which no
\* other failure of the operation has, and leaves the ledger unchanged.
ExpenseIdOps == {"getExpenseById", "updateExpense", "deleteExpense"}
SplitIdOps == {"getSplitById", "updateSplit", "updateSplitStatus", "deleteSplit"}

ParticipantMessages ==
  {"You must select at least one roommate to split the expense with",
   "You must include yourself in the selected roommates"}

ParticipantsValidated ==
  [][resp'.op = "createExpense" =>
       /\ resp'.message \in ParticipantMessages => resp'.code = 400
       /\ IF resp'.code = 400
          THEN UNCHANGED <<expenses, splits, nextExpenseId, nextSplitId, notifications>>
          ELSE /\ Len(resp'.req.selected_roommates) > 0
               /\ Includes(resp'.req.selected_roommates, resp'.req.created_by)]_vars

\* a request without its creator among the roommates is rejected while an
\* expense is stored
ParticipantsValidatedWitness ==
  /\ resp.op = "createExpense"
  /\ resp.code = 400
  /\ resp.message = "You must include yourself in the selected roommates"
  /\ expenses # {}
  /\ splits # {}

UpdateExpenseKeepsSplits ==
  [][resp'.op = "updateExpense" => splits' = splits]_vars

\* the receipt_total of an expense was changed and its splits still sum to
\* the former total
UpdateExpenseKeepsSplitsWitness ==
  /\ resp.op = "updateExpense"
  /\ resp.code = 200
  /\ \E e \in ExpenseById(resp.id) :
       /\ e.receipt_total = resp.req.updateData.receipt_total
       /\ SplitsOf(e.id) # {}
       /\ SumAmounts(SplitsOf(e.id)) > e.receipt_total

\* C18 - every stored split has assigned_by equal to the creator of its
\* expense, whether createExpense generated it or the single-split or the
\* bulk route created it (no route takes another payee in the model).
AssignedByIsCreator ==
  \A s \in splits : \A e \in ExpenseById(s.expense_id) : s.assigned_by = e.created_by

\* C19 - in every reachable state every stored split has a split_amount of
\* more than zero at the stored precision of two fractional digits.
SplitAmountPositive ==
  \A s \in splits : s.split_amount > 0

\* C20 - when two updateSplitStatus requests for one split that both read
\* the same stored row have both completed, the stored status and paid_date
\* of the split are the pair that one of the two requests makes of that row
\* on its own, never the status of one with the paid_date of the other.
PairOf(row) == <<row.status, row.paid_date>>

OnItsOwn(c) == ApplyPatch(calls[c].snap, StatusUpdateData(calls[c].status, calls[c].paid_date))

LastWriteWins ==
  (/\ \A c \in Callers : calls[c].pc = "done"
   /\ calls["A"].splitId = calls["B"].splitId
   /\ calls["A"].snap = calls["B"].snap
   /\ SplitById(calls["A"].splitId) # {})
    => PairOf(TheSplit(calls["A"].splitId)) \in {PairOf(OnItsOwn(c)) : c \in Callers}

\* C21 - while two createExpense calls run together with reads, the rows a
\* reader finds of each call are the expense with all its n splits once the
\* call has committed and none of them before or after a rollback; a read of
\* an expense returns the n splits of the call that made it, and every split
\* of a to-pay list has its expense readable.
Inserted ==
  {c \in Callers : /\ calls[c].pc \in {"expense", "splits", "committed", "done", "failed"}
                   /\ calls[c].tx.expenses # {}}
Committed == {c \in Callers : calls[c].pc \in {"committed", "done"}}

CreateExpenseIsolated ==
  /\ \A c \in Inserted :
       IF c \in Committed
       THEN /\ ExpenseById(calls[c].expense.id) = {calls[c].expense}
            /\ SplitsOf(calls[c].expense.id) = calls[c].tx.splits
            /\ Cardinality(SplitsOf(calls[c].expense.id)) = Len(calls[c].expenseData.selected_roommates)
       ELSE /\ ExpenseById(calls[c].expense.id) = {}
            /\ SplitsOf(calls[c].expense.id) = {}
  /\ \A s \in splits : ExpenseById(s.expense_id) # {}
  /\ (resp.op = "getExpenseById" /\ resp.code = 200) =>
       \E c \in Committed :
         /\ calls[c].expense.id = resp.id
         /\ resp.rows = calls[c].tx.splits
         /\ Cardinality(resp.rows) = Len(calls[c].expenseData.selected_roommates)
  /\ ToPayRead =>
       \A i \in DOMAIN resp.data : \E c \in Committed : resp.data[i] \in calls[c].tx.splits
  /\ (Created /\ resp.rows # {}) =>
       \E c \in Committed : calls[c].expense.id = resp.id /\ resp.rows = calls[c].tx.splits

\* an expense is read with its two or more splits while the other call has
\* inserted its expense and its splits and has not committed
CreateExpenseIsolatedWitness ==
  /\ resp.op = "getExpenseById"
  /\ resp.code = 200
  /\ Cardinality(resp.rows) >= 2
  /\ \E c \in Callers : /\ calls[c].pc = "splits"
                        /\ calls[c].tx.splits # {}
                        /\ calls[c].expense.id < resp.id

\* C22 - a successful createExpense creates one notification of type
\* expense_created for every tenant of the expense's group but the creator,
\* from the creator, and for no one else.
GroupMembersNotified ==
  [][(resp'.op = "createExpense" /\ resp'.code = 201 /\ nextExpenseId' # nextExpenseId) =>
       {notifications'[i] : i \in (Len(notifications) + 1)..Len(notifications')} =
         {[type |-> "expense_created", recipient_id |-> t,
           sender_id |-> resp'.req.created_by, related_entity_id |-> resp'.id] :
            t \in {m \in Tenants : GroupOf(m) = resp'.req.group_id} \ {resp'.req.created_by}}]_vars

\* C23 - a valid updateSplitStatus request for a stored split succeeds
\* whatever the split's status and the new status are, and stores the new
\* status; a new status of unpaid or pending leaves the split without a
\* paid_date, also when it was paid.
AnyTransitionAllowed ==
  [][(/\ resp'.op = "updateSplitStatus"
      /\ resp'.code # 400
      /\ SplitById(resp'.id) # {}) =>
       /\ resp'.code = 200
       /\ \E s \in splits' : /\ s.id = resp'.id
                             /\ s.status = resp'.req.status
                             /\ (resp'.req.status \in Open => s.paid_date = NULL)]_vars

\* the creator's split, created paid, is moved back to unpaid and has no
\* paid_date, after a split of another tenant went from unpaid to paid
AnyTransitionAllowedWitness ==
  /\ StatusUpdated
  /\ now = MaxTime + 1
  /\ Cardinality(expenses) = 1
  /\ resp.req.status = "unpaid"
  /\ TheSplit(resp.id).status = "unpaid"
  /\ TheSplit(resp.id).paid_date = NULL
  /\ TheSplit(resp.id).assigned_to = TheSplit(resp.id).assigned_by
  /\ \E s \in splits : s.status = "paid" /\ s.assigned_to # s.assigned_by

\* C24 - a successful updateSplit writes the columns of its body to the one
\* split it names and nothing else: every other column of that split
\* (paid_date too, when the body changes the status), every other split and
\* every expense stay as they were, and no notification is created, also when
\* the body sets the status to paid.
PatchOnlyGivenFields ==
  [][(resp'.op = "updateSplit" /\ resp'.code = 200) =>
       /\ notifications' = notifications
       /\ expenses' = expenses
       /\ Cardinality(splits') = Cardinality(splits)
       /\ \A s \in splits :
            IF s.id = resp'.id
            THEN \E n \in splits' :
                   /\ n.id = s.id
                   /\ \A f \in DOMAIN s :
                        n[f] = IF f \in DOMAIN resp'.req.updateData
                               THEN resp'.req.updateData[f] ELSE s[f]
            ELSE s \in splits']_vars

\* a patch has set the status of a split to paid: the split has no
\* paid_date and there is no notification
PatchOnlyGivenFieldsWitness ==
  /\ resp.op = "updateSplit"
  /\ resp.code = 200
  /\ "status" \in DOMAIN resp.req.updateData
  /\ resp.req.updateData.status = "paid"
  /\ TheSplit(resp.id).status = "paid"
  /\ TheSplit(resp.id).paid_date = NULL
  /\ Cardinality(splits) >= 2
  /\ notifications = <<>>

\* C25 - a successful updateSplitStatus changes the status and the paid_date
\* of the split it names and nothing else of the ledger: the other columns of
\* that split, every other split and every expense stay as they were; and it
\* creates no notification when the new status is unpaid or pending.
StatusChangeFrame ==
  [][(resp'.op = "updateSplitStatus" /\ resp'.code = 200) =>
       /\ expenses' = expenses
       /\ Cardinality(splits') = Cardinality(splits)
       /\ \A s \in splits :
            IF s.id = resp'.id
            THEN \E n \in splits' :
                   /\ n.id = s.id
                   /\ \A f \in DOMAIN s \ {"status", "paid_date"} : n[f] = s[f]
            ELSE s \in splits'
       /\ resp'.req.status \in Open => notifications' = notifications]_vars

\* a split of an expense of three splits was set to pending while a second
\* expense is stored; the other splits of its expense are not pending
StatusChangeFrameWitness ==
  /\ StatusUpdated
  /\ resp.req.status = "pending"
  /\ Cardinality(expenses) = 2
  /\ Cardinality(SplitsOf(TheSplit(resp.id).expense_id)) = 3
  /\ \A s \in SplitsOf(TheSplit(resp.id).expense_id) : s.id # resp.id => s.status # "pending"
  /\ \E s \in splits : s.expense_id # TheSplit(resp.id).expense_id

\* C26 - no two stored splits of one expense that createExpense generated
\* are assigned to the same tenant, and a successful createExpense stores one
\* split for each distinct tenant of its list of participants.
OneSplitPerParticipant ==
  /\ \A s1, s2 \in splits :
       (s1.expense_id = s2.expense_id /\ s1.assigned_to = s2.assigned_to) => s1 = s2
  /\ Created =>
       Cardinality(SplitsOf(resp.id)) = Cardinality(Range(resp.req.selected_roommates))

\* C30 - every split that createExpense generated is assigned to a tenant of
\* the group of its expense, and the group of every expense is the group of
\* its creator.
ParticipantsAreGroupMembers ==
  \A s \in splits : \A e \in ExpenseById(s.expense_id) :
    /\ GroupOf(s.assigned_to) = e.group_id
    /\ e.group_id = GroupOf(e.created_by)

\* C27 - in every reachable state every split that is unpaid or pending is
\* in the to-pay list of exactly one tenant and in the to-receive list of
\* exactly one tenant, and the to-pay totals of all tenants sum to the same
\* amount as their to-receive totals.
RECURSIVE SumToPay(_)
SumToPay(n) ==
  IF n = 0 THEN 0
  ELSE SumAmounts({s \in splits : ToPayWhere(s, n)}) + SumToPay(n - 1)

RECURSIVE SumToReceive(_)
SumToReceive(n) ==
  IF n = 0 THEN 0
  ELSE SumAmounts({s \in splits : ToReceiveWhere(s, n)}) + SumToReceive(n - 1)

OpenSplitsBalanced ==
  /\ \A s \in splits : s.status \in Open =>
       /\ Cardinality({t \in Tenants : ToPayWhere(s, t)}) = 1
       /\ Cardinality({t \in Tenants : ToReceiveWhere(s, t)}) = 1
  /\ SumToPay(NumTenants) = SumToReceive(NumTenants)

\* C28 - in every reachable state no split that a tenant both pays and is
\* owed (the creator's own share) is in that tenant's to-pay list or
\* to-receive list.
NoSelfDebt ==
  \A s \in splits : \A t \in Tenants :
    (s.assigned_to = t /\ s.assigned_by = t) => ~ToPayWhere(s, t) /\ ~ToReceiveWhere(s, t)

\* C29 - when a request of updateSplitStatus returns success, with
\* deletions of the split or of its expense served between its statements,
\* the split is stored with the new status; a settlement notification is
\* created only for a stored split.
SuccessMeansStored ==
  [][(\E c \in Callers : calls[c].pc = "found" /\ calls'[c].pc = "done") =>
       /\ resp'.code = 200 =>
            \E s \in splits' : s.id = resp'.id /\ s.status = resp'.req.status
       /\ Len(notifications') > Len(notifications) => SplitById(resp'.id) # {}]_vars

====
